---- MODULE Spec2Model ----
(***************************************************************************)
(* Model of gkb_cpu_monitor.py: the main loop that shows the CPU load as a *)
(* keyboard colour and blinks on desktop notifications, the dbus scanner   *)
(* thread that writes the NOTIFY global, and the start-up code.            *)
(***************************************************************************)
EXTENDS Integers, Sequences, FiniteSets, TLC

(***************************************************************************)
(* Sizes.  The script sets SAMPLES = 25 (line 25); the model keeps the     *)
(* same ring buffer with fewer slots.                                      *)
(***************************************************************************)
SAMPLES == 2

\* Values int(psutil.cpu_percent()) takes in the model (line 178).
Loads == {0, 100}

\* The same for the runs of the Monitoring branch alone.
SamplerLoads == {0, 40, 80, 100}

\* The value the cache is filled with at start (line 162).
PREFILL == 50

\* Application names carried by dbus notifications (line 94).
Names == {"Telegram", "Spotify", "Other"}

\* Outcomes of subprocess.check_output(["g810-led", ...]) (lines 66-74).
Outcomes == {"ok", "failed", "not_found"}

NOTIFICATION_SETTINGS_MANDATORY_ATTRIBUTES == <<"name", "color", "count", "interval">>

AllTags == {"name", "color", "count", "interval"}

\* <notification> nodes of notifications.xml; tags is the set of child
\* elements the node has, interval is in milliseconds.
TelegramNode ==
  [tags |-> AllTags, name |-> "Telegram", color |-> <<0, 190, 255>>,
   count |-> 2, interval |-> 300]

SpotifyNode(tags) ==
  [tags |-> tags, name |-> "Spotify", color |-> <<255, 255, 255>>,
   count |-> 1, interval |-> 500]

\* The settings files tried: a complete first record followed by a record
\* with any subset of the four elements.
SettingsFiles == { <<TelegramNode, SpotifyNode(t)>> : t \in SUBSET AllTags }

VARIABLES
  args,                        \* argparse result: notify, persistent
  xml_file,                    \* content of NOTIFICATION_SETTINGS_FILE
  NOTIFY,                      \* global NOTIFY, "" when empty
  cpu_load_cache,              \* ring of the last SAMPLES loads
  current_sampling,            \* write cursor, 0-based
  cpu_load,                    \* sum and length of the cache (line 183),
                               \* <<>> while the name is unbound
  meter_color,                 \* <<>> while the name is unbound
  notification_settings_list,
  pc,                          \* position of the main thread
  scan_i,                      \* index of the for loop of line 198
  blink,                       \* locals of notification_blink
  scanner,                     \* state of the notification_scanner thread
  exit_status,                 \* "" while the process runs
  reported,                    \* text printed by line 172
  \* history
  tick_top,                    \* NOTIFY as read by line 176 in this tick
  tick_cmds,                   \* colours sent to g810-led in this tick
  last_cmd,                    \* branch and outcome of the last command
  last_write,                  \* last name written by notification_event
  mid_blink,                   \* name NOTIFY holds from a write made while
                               \* notification_blink ran in this tick
  unread,                      \* NOTIFY was written and not read since
  overwritten,                 \* unread name the last write replaced
  acted,                       \* names whose blink started since the last write
  recorded                     \* the last SAMPLES samples written by line 178

vars == <<args, xml_file, NOTIFY, cpu_load_cache, current_sampling,
          meter_color, notification_settings_list, pc, scan_i, blink,
          scanner, exit_status, reported,
          tick_top, tick_cmds, last_cmd, last_write, mid_blink, unread,
          overwritten, acted, cpu_load, recorded>>

hist == <<tick_top, tick_cmds, last_cmd, last_write, mid_blink, unread,
          overwritten, acted>>

----------------------------------------------------------------------------
(* General purpose functions                                               *)

MinOf(a, b) == IF a < b THEN a ELSE b
MaxOf(a, b) == IF a > b THEN a ELSE b

limit(min_thr, max_thr, number) == MaxOf(MinOf(number, max_thr), min_thr)

RECURSIVE SumSeq(_)
SumSeq(s) == IF s = <<>> THEN 0 ELSE Head(s) + SumSeq(Tail(s))

\* Loads sum/n for which the double product limit(0, 1, x) * 255 of line 55
\* falls just below the integer the exact product reaches, so that int()
\* truncates one lower: red channel, green channel.
RedShort == { <<3, 70>>, <<3, 140>> }
GreenShort ==
  { <<1, 80>>, <<1, 90>>, <<2, 160>>, <<2, 180>>, <<3, 200>>, <<3, 230>>,
    <<3, 240>>, <<3, 260>>, <<3, 270>>, <<3, 290>>, <<4, 320>>, <<4, 360>>,
    <<5, 400>>, <<5, 450>> }

\* get_load_color(sum / n): percentage is passed as the pair sum, n.
get_load_color(sum, n) ==
  LET red   == IF 2 * sum >= 100 * n THEN 255
               ELSE IF sum <= 0 THEN 0
               ELSE (510 * sum) \div (100 * n)
      rest  == 100 * n - sum
      green == IF 2 * rest >= 100 * n THEN 255
               ELSE IF rest <= 0 THEN 0
               ELSE (510 * rest) \div (100 * n)
  IN  << IF <<n, sum>> \in RedShort THEN red - 1 ELSE red,
         IF <<n, sum>> \in GreenShort THEN green - 1 ELSE green,
         0 >>

\* The colour set_keyboard_color encodes for g810-led (lines 64-65).
color_string(rgb) == [i \in 1..Len(rgb) |-> limit(0, 255, rgb[i])]

\* Variants of set_keyboard_color: the exit of line 74 not guarded by
\* ignore_errors; FileNotFoundError handled by the bare except clause; the
\* bare except clause never exiting.
set_keyboard_color_strict(outcome, ignore_errors) ==
  IF outcome = "not_found" THEN "device_not_found"
  ELSE IF outcome = "failed" THEN "device_failed"
  ELSE "return"

set_keyboard_color_one_except(outcome, ignore_errors) ==
  IF outcome \in {"not_found", "failed"} /\ ~ignore_errors THEN "device_failed"
  ELSE "return"

set_keyboard_color_lenient(outcome, ignore_errors) ==
  IF outcome = "not_found" THEN "device_not_found"
  ELSE "return"

\* set_keyboard_color: what the call does for an outcome of g810-led;
\* "return" or the reason exit() is called.
set_keyboard_color(outcome, ignore_errors) ==
  IF outcome = "not_found" THEN "device_not_found"
  ELSE IF outcome = "failed" /\ ~ignore_errors THEN "device_failed"
  ELSE "return"

\* Variant: notification_blink passing the -persistent flag on.
ignore_errors_persistent == args.persistent

\* Default of the parameter ignore_errors (line 58), which the calls of
\* notification_blink rely on.
ignore_errors_default == FALSE

----------------------------------------------------------------------------
(* Settings loading                                                        *)

\* Variant of the check of lines 144-146 that stops before the last
\* mandatory attribute.
FirstMissing_short(tags) ==
  LET miss == {i \in 1..(Len(NOTIFICATION_SETTINGS_MANDATORY_ATTRIBUTES) - 1) :
                 NOTIFICATION_SETTINGS_MANDATORY_ATTRIBUTES[i] \notin tags}
  IN  IF miss = {} THEN ""
      ELSE NOTIFICATION_SETTINGS_MANDATORY_ATTRIBUTES[
             CHOOSE i \in miss : \A j \in miss : i <= j]

\* Lines 144-146: the first mandatory attribute the object lacks, "" when
\* it has them all.

FirstMissing(tags) ==
  LET miss == {i \in 1..Len(NOTIFICATION_SETTINGS_MANDATORY_ATTRIBUTES) :
                 NOTIFICATION_SETTINGS_MANDATORY_ATTRIBUTES[i] \notin tags}
  IN  IF miss = {} THEN ""
      ELSE NOTIFICATION_SETTINGS_MANDATORY_ATTRIBUTES[
             CHOOSE i \in miss : \A j \in miss : i <= j]

RECURSIVE parse_nodes(_, _)
parse_nodes(nodes, out_list) ==
  IF nodes = <<>> THEN [error |-> "", out_list |-> out_list]
  ELSE LET node == Head(nodes)
           missing == FirstMissing(node.tags)
       IN  IF missing # ""
           THEN [error |-> missing, out_list |-> <<>>]
           ELSE parse_nodes(Tail(nodes),
                  Append(out_list,
                         [name |-> node.name, color |-> node.color,
                          count |-> node.count, interval |-> node.interval]))

parse_notification_settings_from_xml(file) == parse_nodes(file, <<>>)

----------------------------------------------------------------------------
Init ==
  /\ args \in [notify : BOOLEAN, persistent : BOOLEAN]
  /\ xml_file \in SettingsFiles
  /\ NOTIFY = ""
  /\ cpu_load_cache = [i \in 1..SAMPLES |-> PREFILL]
  /\ current_sampling = 0
  /\ cpu_load = <<>>
  /\ meter_color = <<>>
  /\ notification_settings_list = <<>>
  /\ pc = "setup"
  /\ scan_i = 0
  /\ blink = [color1 |-> <<>>, color2 |-> <<>>, count |-> 0, i |-> 0, phase |-> 1]
  /\ scanner = "none"
  /\ exit_status = ""
  /\ reported = ""
  /\ tick_top = ""
  /\ tick_cmds = <<>>
  /\ last_cmd = [state |-> "none", outcome |-> "none"]
  /\ last_write = ""
  /\ mid_blink = ""
  /\ unread = FALSE
  /\ overwritten = ""
  /\ acted = <<>>
  /\ recorded = <<>>

\* Variant: the setup of lines 167-173 run whatever -notify is.
notify_always == TRUE

\* Line 166: if args.notify.
notify_requested == args.notify

\* Lines 164-173: load the settings and start the scanner thread.
Setup ==
  /\ exit_status = "" /\ pc = "setup"
  /\ UNCHANGED <<cpu_load, recorded>>
  /\ IF notify_requested
     THEN LET r == parse_notification_settings_from_xml(xml_file)
          IN  IF r.error # ""
              THEN /\ exit_status' = "setup_error"
                   /\ reported' = r.error
                   /\ UNCHANGED <<notification_settings_list, scanner, pc>>
              ELSE /\ notification_settings_list' = r.out_list
                   /\ scanner' = "starting"
                   /\ pc' = "tick"
                   /\ UNCHANGED <<exit_status, reported>>
     ELSE /\ pc' = "tick"
          /\ UNCHANGED <<notification_settings_list, scanner, exit_status, reported>>
  /\ UNCHANGED <<args, xml_file, NOTIFY, cpu_load_cache, current_sampling,
                 meter_color, scan_i, blink>>
  /\ UNCHANGED hist

\* Line 176: the test of NOTIFY at the top of a tick.
TickCheck ==
  /\ exit_status = "" /\ pc = "tick"
  /\ UNCHANGED <<cpu_load, recorded>>
  /\ tick_top' = NOTIFY
  /\ tick_cmds' = <<>>
  /\ mid_blink' = ""
  /\ unread' = FALSE
  /\ IF NOTIFY = ""
     THEN pc' = "sample" /\ UNCHANGED scan_i
     ELSE IF Len(notification_settings_list) = 0
          THEN pc' = "clear" /\ UNCHANGED scan_i
          ELSE pc' = "scan" /\ scan_i' = 1
  /\ UNCHANGED <<args, xml_file, NOTIFY, cpu_load_cache, current_sampling,
                 meter_color, notification_settings_list, blink, scanner,
                 exit_status, reported, last_cmd, last_write, overwritten,
                 acted>>

\* Variant of line 178 that writes the slot after the cursor.
record_sample_shifted(cache, cursor, load) ==
  [cache EXCEPT ![((cursor + 1) % Len(cache)) + 1] = load]

\* Line 178: the cache after cpu_load_cache[current_sampling] = load.
record_sample(cache, cursor, load) == [cache EXCEPT ![cursor + 1] = load]

\* Variant of lines 179-181 that leaves the cursor where it is.
advance_stuck(cursor, length) == cursor

\* Lines 179-181: the cursor after the sample.
advance(cursor, length) == IF cursor + 1 >= length THEN 0 ELSE cursor + 1

\* Line 183: sum(cpu_load_cache) / len(cpu_load_cache), kept as the pair.
average(cache) == <<SumSeq(cache), Len(cache)>>

\* Variant of lines 178-184 that averages the cache before the sample is
\* stored.
MonitorSample_stale(load) ==
  /\ exit_status = "" /\ pc = "sample"
  /\ cpu_load_cache' = record_sample(cpu_load_cache, current_sampling, load)
  /\ cpu_load' = average(cpu_load_cache)
  /\ meter_color' = get_load_color(average(cpu_load_cache)[1],
                                   average(cpu_load_cache)[2])
  /\ current_sampling' = advance(current_sampling, Len(cpu_load_cache))
  /\ recorded' = IF Len(recorded) < Len(cpu_load_cache)
                 THEN Append(recorded, load)
                 ELSE Append(Tail(recorded), load)
  /\ pc' = "display"
  /\ UNCHANGED <<args, xml_file, NOTIFY, notification_settings_list, scan_i,
                 blink, scanner, exit_status, reported>>
  /\ UNCHANGED hist

\* Lines 178-184: record a sample, average the cache, map it to a colour.
MonitorSample(load) ==
  /\ exit_status = "" /\ pc = "sample"
  /\ LET cache == record_sample(cpu_load_cache, current_sampling, load)
     IN  /\ cpu_load_cache' = cache
         /\ cpu_load' = average(cache)
         /\ meter_color' = get_load_color(average(cache)[1], average(cache)[2])
  /\ current_sampling' = advance(current_sampling, Len(cpu_load_cache))
  /\ recorded' = IF Len(recorded) < Len(cpu_load_cache)
                 THEN Append(recorded, load)
                 ELSE Append(Tail(recorded), load)
  /\ pc' = "display"
  /\ UNCHANGED <<args, xml_file, NOTIFY, notification_settings_list, scan_i,
                 blink, scanner, exit_status, reported>>
  /\ UNCHANGED hist

\* Lines 186-194: set_keyboard_color(meter_color, args.persistent), sleep.
MonitorDisplay(outcome) ==
  /\ exit_status = "" /\ pc = "display"
  /\ UNCHANGED <<cpu_load, recorded>>
  /\ tick_cmds' = Append(tick_cmds, color_string(meter_color))
  /\ last_cmd' = [state |-> "Monitoring", outcome |-> outcome]
  /\ LET r == set_keyboard_color(outcome, args.persistent)
     IN  IF r = "return"
         THEN pc' = "tick" /\ UNCHANGED exit_status
         ELSE exit_status' = r /\ UNCHANGED pc
  /\ UNCHANGED <<args, xml_file, NOTIFY, cpu_load_cache, current_sampling,
                 meter_color, notification_settings_list, scan_i, blink,
                 scanner, reported, tick_top, last_write, mid_blink, unread,
                 overwritten, acted>>

\* Variant: line 200 leaving color2 to its default [0,0,0] (line 76).
blink_color2_default == <<0, 0, 0>>

\* Line 200: the second colour handed to notification_blink.
blink_color2 == meter_color

\* Lines 198-201: one iteration of the scan of the settings list; the
\* comparison reads NOTIFY again, and the call of line 200 reads meter_color.
ScanStep ==
  /\ exit_status = "" /\ pc = "scan"
  /\ UNCHANGED <<cpu_load, recorded>>
  /\ unread' = FALSE
  /\ LET notification == notification_settings_list[scan_i]
     IN  IF NOTIFY = notification["name"]
         THEN IF meter_color = <<>>
              THEN /\ exit_status' = "name_error"
                   /\ UNCHANGED <<pc, scan_i, blink, acted>>
              ELSE /\ blink' = [color1 |-> notification["color"],
                                color2 |-> blink_color2,
                                count |-> notification["count"],
                                i |-> 0, phase |-> 1]
                   /\ pc' = IF notification["count"] > 0 THEN "blink" ELSE "clear"
                   /\ acted' = Append(acted, notification["name"])
                   /\ UNCHANGED <<scan_i, exit_status>>
         ELSE /\ IF scan_i < Len(notification_settings_list)
                 THEN scan_i' = scan_i + 1 /\ UNCHANGED pc
                 ELSE pc' = "clear" /\ UNCHANGED scan_i
              /\ UNCHANGED <<blink, exit_status, acted>>
  /\ UNCHANGED <<args, xml_file, NOTIFY, cpu_load_cache, current_sampling,
                 meter_color, notification_settings_list, scanner, reported,
                 tick_top, tick_cmds, last_cmd, last_write, mid_blink,
                 overwritten>>

\* Lines 80-84: one set_keyboard_color call of notification_blink and the
\* sleep after it.
notification_blink(outcome) ==
  /\ exit_status = "" /\ pc = "blink"
  /\ UNCHANGED <<cpu_load, recorded>>
  /\ tick_cmds' = Append(tick_cmds,
                    color_string(IF blink.phase = 1 THEN blink.color1
                                 ELSE blink.color2))
  /\ last_cmd' = [state |-> "Blinking", outcome |-> outcome]
  /\ LET r == set_keyboard_color(outcome, ignore_errors_default)
     IN  IF r = "return"
         THEN /\ IF blink.phase = 1
                 THEN blink' = [blink EXCEPT !.phase = 2] /\ UNCHANGED pc
                 ELSE /\ blink' = [blink EXCEPT !.phase = 1, !.i = blink.i + 1]
                      /\ pc' = IF blink.i + 1 >= blink.count THEN "clear" ELSE "blink"
              /\ UNCHANGED exit_status
         ELSE exit_status' = r /\ UNCHANGED <<pc, blink>>
  /\ UNCHANGED <<args, xml_file, NOTIFY, cpu_load_cache, current_sampling,
                 meter_color, notification_settings_list, scan_i, scanner,
                 reported, tick_top, last_write, mid_blink, unread,
                 overwritten, acted>>

\* Line 202: NOTIFY = "".
ClearNotify ==
  /\ exit_status = "" /\ pc = "clear"
  /\ UNCHANGED <<cpu_load, recorded>>
  /\ NOTIFY' = ""
  /\ pc' = "tick"
  /\ UNCHANGED <<args, xml_file, cpu_load_cache, current_sampling,
                 meter_color, notification_settings_list, scan_i, blink,
                 scanner, exit_status, reported>>
  /\ UNCHANGED hist

\* Lines 101-106: the thread connects to the session bus and registers the
\* filter; an exception raised here ends the thread only.
notification_scanner(connected) ==
  /\ exit_status = "" /\ scanner = "starting"
  /\ UNCHANGED <<cpu_load, recorded>>
  /\ scanner' = IF connected THEN "listening" ELSE "crashed"
  /\ UNCHANGED <<args, xml_file, NOTIFY, cpu_load_cache, current_sampling,
                 meter_color, notification_settings_list, pc, scan_i, blink,
                 exit_status, reported>>
  /\ UNCHANGED hist

\* Variant of notification_event that also sets the keyboard colour.
notification_event_display(name) ==
  /\ exit_status = "" /\ scanner = "listening"
  /\ UNCHANGED <<cpu_load, recorded>>
  /\ NOTIFY' = name
  /\ tick_cmds' = Append(tick_cmds, color_string(<<0, 0, 0>>))
  /\ last_write' = name
  /\ mid_blink' = IF pc = "blink" THEN name
                  ELSE IF pc = "clear" THEN "" ELSE mid_blink
  /\ overwritten' = IF unread THEN NOTIFY ELSE ""
  /\ unread' = TRUE
  /\ acted' = <<>>
  /\ UNCHANGED <<args, xml_file, cpu_load_cache, current_sampling,
                 meter_color, notification_settings_list, pc, scan_i, blink,
                 scanner, exit_status, reported, tick_top, last_cmd>>

\* Variant of notification_event that keeps a name not yet cleared.
notification_event_keep(name) ==
  /\ exit_status = "" /\ scanner = "listening"
  /\ UNCHANGED <<cpu_load, recorded>>
  /\ NOTIFY' = IF NOTIFY = "" THEN name ELSE NOTIFY
  /\ last_write' = name
  /\ mid_blink' = IF pc = "blink" THEN name
                  ELSE IF pc = "clear" THEN "" ELSE mid_blink
  /\ overwritten' = IF unread THEN NOTIFY ELSE ""
  /\ unread' = TRUE
  /\ acted' = <<>>
  /\ UNCHANGED <<args, xml_file, cpu_load_cache, current_sampling,
                 meter_color, notification_settings_list, pc, scan_i, blink,
                 scanner, exit_status, reported, tick_top, tick_cmds, last_cmd>>

\* Lines 88-94: the filter stores the application name in NOTIFY.
notification_event(name) ==
  /\ exit_status = "" /\ scanner = "listening"
  /\ UNCHANGED <<cpu_load, recorded>>
  /\ NOTIFY' = name
  /\ last_write' = name
  /\ mid_blink' = IF pc = "blink" THEN name
                  ELSE IF pc = "clear" THEN "" ELSE mid_blink
  /\ overwritten' = IF unread THEN NOTIFY ELSE ""
  /\ unread' = TRUE
  /\ acted' = <<>>
  /\ UNCHANGED <<args, xml_file, cpu_load_cache, current_sampling,
                 meter_color, notification_settings_list, pc, scan_i, blink,
                 scanner, exit_status, reported, tick_top, tick_cmds, last_cmd>>

Next ==
  \/ Setup
  \/ TickCheck
  \/ \E load \in Loads : MonitorSample(load)
  \/ \E outcome \in Outcomes : MonitorDisplay(outcome)
  \/ ScanStep
  \/ \E outcome \in Outcomes : notification_blink(outcome)
  \/ ClearNotify
  \/ \E connected \in BOOLEAN : notification_scanner(connected)
  \/ \E name \in Names : notification_event(name)

Spec == Init /\ [][Next]_vars

----------------------------------------------------------------------------
(* The load meter alone: the script run without -notify, with more load     *)
(* values.                                                                  *)

SamplerInit ==
  /\ Init
  /\ ~args.notify
  /\ xml_file = <<TelegramNode, SpotifyNode(AllTags)>>

SamplerNext ==
  \/ Setup
  \/ TickCheck
  \/ \E load \in SamplerLoads : MonitorSample(load)
  \/ \E outcome \in Outcomes : MonitorDisplay(outcome)

SamplerSpec == SamplerInit /\ [][SamplerNext]_vars

----------------------------------------------------------------------------
(* The script run with -notify, a complete settings file and a keyboard     *)
(* that accepts every command.  The main thread is a loop whose only waits  *)
(* are sleeps of fixed length, so it always takes its next step; nothing    *)
(* is assumed about when notifications arrive.                              *)

LiveInit ==
  /\ Init
  /\ args = [notify |-> TRUE, persistent |-> FALSE]
  /\ xml_file = <<TelegramNode, SpotifyNode(AllTags)>>

MainStep ==
  \/ Setup
  \/ TickCheck
  \/ \E load \in Loads : MonitorSample(load)
  \/ MonitorDisplay("ok")
  \/ ScanStep
  \/ notification_blink("ok")
  \/ ClearNotify

LiveNext ==
  \/ MainStep
  \/ \E connected \in BOOLEAN : notification_scanner(connected)
  \/ \E name \in Names : notification_event(name)

LiveSpec == LiveInit /\ [][LiveNext]_vars /\ WF_vars(MainStep)

----------------------------------------------------------------------------
(* get_load_color alone, applied to every integer load (line 184).          *)

MapperInit ==
  /\ args = [notify |-> FALSE, persistent |-> FALSE]
  /\ xml_file = <<TelegramNode, SpotifyNode(AllTags)>>
  /\ NOTIFY = ""
  /\ cpu_load_cache = [i \in 1..SAMPLES |-> PREFILL]
  /\ current_sampling = 0
  /\ cpu_load \in { <<p, 1>> : p \in 0..100 }
  /\ meter_color = <<>>
  /\ notification_settings_list = <<>>
  /\ pc = "mapper"
  /\ scan_i = 0
  /\ blink = [color1 |-> <<>>, color2 |-> <<>>, count |-> 0, i |-> 0, phase |-> 1]
  /\ scanner = "none"
  /\ exit_status = ""
  /\ reported = ""
  /\ tick_top = ""
  /\ tick_cmds = <<>>
  /\ last_cmd = [state |-> "none", outcome |-> "none"]
  /\ last_write = ""
  /\ mid_blink = ""
  /\ unread = FALSE
  /\ overwritten = ""
  /\ acted = <<>>
  /\ recorded = <<>>

\* Line 184: meter_color = get_load_color(cpu_load).
ApplyMapper ==
  /\ pc = "mapper"
  /\ meter_color' = get_load_color(cpu_load[1], cpu_load[2])
  /\ pc' = "mapped"
  /\ UNCHANGED <<args, xml_file, NOTIFY, cpu_load_cache, current_sampling,
                 cpu_load, notification_settings_list, scan_i, blink,
                 scanner, exit_status, reported, recorded>>
  /\ UNCHANGED hist

MapperNext == ApplyMapper

MapperSpec == MapperInit /\ [][MapperNext]_vars
----------------------------------------------------------------------------
(* Properties                                                              *)

\* Lines 198-201 run without interference: the index of the first setting
\* whose name equals name, 0 when there is none.
resolve(name, settings) ==
  LET hits == {i \in 1..Len(settings) : settings[i]["name"] = name}
  IN  IF hits = {} THEN 0 ELSE CHOOSE i \in hits : \A j \in hits : i <= j

\* The commands of notification_blink(color1, color2, count) when every
\* command succeeds.
BlinkPattern(color1, color2, count) ==
  [k \in 1..(2 * count) |->
     IF k % 2 = 1 THEN color_string(color1) ELSE color_string(color2)]

\* This step sent a command to g810-led.
CmdIssued == Len(tick_cmds') = Len(tick_cmds) + 1

\* The process has exited: nothing moves any more.
Halted == [][exit_status = ""]_vars

\* C1: a name the scanner writes while the main loop runs a blink (inside
\* notification_blink) and that nothing has overwritten is still in NOTIFY
\* when that tick ends, so that the next tick acts on it.
C1_MidBlinkKept ==
  [][(pc = "clear" /\ pc' = "tick" /\ mid_blink # "")
       => NOTIFY' = mid_blink]_vars

\* C2: NOTIFY holds at most the name written last, so a read after writes
\* A then B never sees A; since the last write at most one blink has
\* started, and it is the blink of the name written last.
C2_LastWriterWins ==
  /\ NOTIFY \in {"", last_write}
  /\ Len(acted) <= 1
  /\ acted # <<>> => acted[1] = last_write

\* C2 witness: Telegram was overwritten unread by Spotify, and the blink of
\* Spotify is running.
C2_Witness ==
  /\ overwritten = "Telegram" /\ last_write = "Spotify"
  /\ acted = <<"Spotify">> /\ pc = "blink" /\ Len(tick_cmds) = 1

\* C3: a tick whose line-176 test saw a name that resolves to a setting
\* with colour c and count k ends, when no command failed, with exactly the
\* 2k commands c, L, c, L, ... where L is the colour of the last Monitoring
\* tick.
C3_BlinkSequence ==
  LET idx == resolve(tick_top, notification_settings_list)
  IN  ((pc = "clear" \/ exit_status = "name_error") /\ idx # 0)
        => tick_cmds = BlinkPattern(notification_settings_list[idx]["color"],
                                    meter_color,
                                    notification_settings_list[idx]["count"])

\* C4: a tick whose line-176 test saw a name that matches no setting sends
\* no command, does not end the process and does not blink.
C4_UnmatchedSkips ==
  (tick_top # "" /\ resolve(tick_top, notification_settings_list) = 0)
    => (tick_cmds = <<>> /\ exit_status = "" /\ pc # "blink")

\* C5: with -persistent, a failed command of the Monitoring branch leaves the
\* process running and the loop back at the top of the next tick.
C5_PersistentSurvives ==
  /\ [](args.persistent /\ last_cmd = [state |-> "Monitoring", outcome |-> "failed"]
          => exit_status = "")
  /\ [][(args.persistent /\ pc = "display" /\ CmdIssued
           /\ last_cmd'.outcome = "failed")
          => (pc' = "tick" /\ exit_status' = "")]_vars

\* C5 witness: after the swallowed failure the next tick has recorded a
\* further sample and is about to send its command.
C5_Witness ==
  /\ args.persistent /\ exit_status = "" /\ pc = "display"
  /\ last_cmd = [state |-> "Monitoring", outcome |-> "failed"]
  /\ current_sampling = 0

C7_ScannerFailureFatal ==
  [][scanner = "crashed" => ~CmdIssued]_vars

\* C8: a command that finds no g810-led program ends the process, in both
\* branches and with or without -persistent, and nothing is sent after it.
C8_NotFoundFatal ==
  /\ [](last_cmd.outcome = "not_found" => exit_status = "device_not_found")
  /\ [][CmdIssued /\ last_cmd'.outcome = "not_found"
          => exit_status' = "device_not_found"]_vars
  /\ [][exit_status # "" => ~CmdIssued]_vars

C8_Witness ==
  /\ args.persistent /\ exit_status = "device_not_found"
  /\ last_cmd = [state |-> "Monitoring", outcome |-> "not_found"]

\* C9: without -persistent, a failed command of either branch ends the
\* process at once: no further sample, command or retry.
C9_DefaultFailureFatal ==
  /\ [](~args.persistent /\ last_cmd.outcome = "failed"
          => exit_status = "device_failed")
  /\ [][exit_status # ""
          => UNCHANGED <<cpu_load_cache, current_sampling, tick_cmds, last_cmd>>]_vars

C9_Witness ==
  /\ ~args.persistent /\ exit_status = "device_failed"
  /\ last_cmd = [state |-> "Monitoring", outcome |-> "failed"]
  /\ current_sampling = 1

\* A <notification> node of the file lacks a mandatory element.
Incomplete(file) ==
  \E i \in 1..Len(file) : file[i].tags # AllTags

\* C10: with -notify and a record lacking a mandatory element, setup ends
\* the process naming an element some record lacks; the loop never starts,
\* no command is sent and the scanner thread is never started.
C10_MissingFieldAborts ==
  /\ [](args.notify /\ Incomplete(xml_file)
          => /\ pc = "setup" /\ scanner = "none" /\ tick_cmds = <<>>
             /\ exit_status \in {"", "setup_error"}
             /\ exit_status = "setup_error"
                  => \E i \in 1..Len(xml_file) :
                       reported \in AllTags \ xml_file[i].tags)
  /\ [][(pc = "setup" /\ args.notify /\ Incomplete(xml_file))
          => exit_status' = "setup_error"]_vars

C10_Witness ==
  /\ exit_status = "setup_error" /\ reported = "interval"
  /\ xml_file[2].tags = AllTags \ {"interval"}

\* A step of the scanner thread: the main thread stays where it is.
ScannerStep == UNCHANGED <<pc, scan_i, blink, exit_status>>

\* C11: a step of the scanner thread sends no command and changes nothing
\* of the program but NOTIFY (and the thread's own state); commands are sent
\* by the main loop only, from lines 186 and 81/83, one per step.
C11_OnlyArbiterDisplays ==
  /\ [][ScannerStep
          => (~CmdIssued /\
              UNCHANGED <<tick_cmds, last_cmd, cpu_load_cache,
                          current_sampling, cpu_load, meter_color,
                          notification_settings_list, reported>>)]_vars
  /\ [][CmdIssued => (pc \in {"display", "blink"} /\ ~ScannerStep)]_vars
  /\ [][Len(tick_cmds') <= Len(tick_cmds) + 1]_vars

\* C11 witness: the scanner wrote a name between two commands of a blink.
C11_Witness ==
  /\ pc = "blink" /\ Len(tick_cmds) = 1 /\ mid_blink = "Other"
  /\ NOTIFY = "Other"

\* C14: without -notify the scanner thread is never started, NOTIFY stays
\* empty and the main loop never leaves the Monitoring branch.
C14_NotifyDisabledInert ==
  ~args.notify
    => /\ scanner = "none" /\ NOTIFY = "" /\ tick_top = ""
       /\ notification_settings_list = <<>>
       /\ pc \in {"setup", "tick", "sample", "display"}

C14_Witness ==
  /\ ~args.notify /\ pc = "display" /\ Len(recorded) = SAMPLES
  /\ last_cmd.state = "Monitoring"

\* C15: the second colour of a blink is always a defined colour: the call
\* of line 200 never fails on an unbound meter_color, also when the
\* notification is pending before the first Monitoring tick.
C15_BlinkColorDefined ==
  /\ exit_status # "name_error"
  /\ pc = "blink" => blink.color2 # <<>>

\* C16: what a tick of the notification branch does is the resolution of
\* the name its line-176 test saw: the blink it runs is the one of that
\* name's setting, and it runs none only when that name has no setting.
C16_ConsistentRead ==
  LET idx == resolve(tick_top, notification_settings_list)
  IN  /\ pc = "blink"
         => /\ idx # 0
            /\ blink.color1 = notification_settings_list[idx]["color"]
            /\ blink.count = notification_settings_list[idx]["count"]
      /\ (pc = "clear" /\ tick_cmds = <<>>) => idx = 0

\* C17: the steps of the notification branch leave the cache, the cursor
\* and meter_color alone, and every second command of a blink is the
\* colour the last Monitoring tick computed.
C17_BlinkKeepsLoadState ==
  /\ [][(pc = "scan" \/ pc = "blink" \/ pc = "clear")
          => UNCHANGED <<cpu_load_cache, current_sampling, cpu_load,
                         meter_color>>]_vars
  /\ [](pc \in {"blink", "clear"}
          => \A k \in 1..Len(tick_cmds) :
               k % 2 = 0 => tick_cmds[k] = color_string(meter_color))
  /\ [](pc = "blink" => blink.color2 = meter_color)

C17_Witness ==
  /\ pc = "clear" /\ Len(tick_cmds) = 4
  /\ tick_cmds[4] = <<255, 0, 0>> /\ tick_cmds[3] = <<0, 190, 255>>

\* C12: once the last SAMPLES samples are all V, whatever the cache held
\* before, the average is exactly V; while fewer than SAMPLES samples have
\* been recorded it is the mean of those samples and of the pre-fill values
\* left.
C12_AverageConverges ==
  cpu_load # <<>>
    => /\ (Len(recorded) = SAMPLES
             /\ \A j \in 1..SAMPLES : recorded[j] = recorded[1])
            => cpu_load = <<SAMPLES * recorded[1], SAMPLES>>
       /\ Len(recorded) < SAMPLES
            => cpu_load = <<SumSeq(recorded)
                              + PREFILL * (SAMPLES - Len(recorded)), SAMPLES>>

\* C12 witness: SAMPLES samples of 80 have replaced other contents.
C12_Witness ==
  /\ Len(recorded) = SAMPLES /\ \A j \in 1..SAMPLES : recorded[j] = 80
  /\ cpu_load = <<SAMPLES * 80, SAMPLES>> /\ pc = "tick"
  /\ last_cmd.outcome = "failed"

\* C13: for every integer load p in 0..100 the colour is
\* (trunc(255 min(1, 2p/100)), trunc(255 min(1, 2(1 - p/100))), 0): green at
\* 0, yellow at 50, red at 100, blue always 0, red non-decreasing and green
\* non-increasing in p.
C13_MapperFormula ==
  pc = "mapped"
    => LET p == cpu_load[1]
           \* trunc(255 * min(1, x / 100)) for an integer x >= 0
           Scale(x) == IF x >= 100 THEN 255 ELSE (255 * x) \div 100
       IN  /\ meter_color = <<Scale(2 * p), Scale(2 * (100 - p)), 0>>
           /\ p = 0 => meter_color = <<0, 255, 0>>
           /\ p = 50 => meter_color = <<255, 255, 0>>
           /\ p = 100 => meter_color = <<255, 0, 0>>
           /\ p < 100 => /\ meter_color[1] <= get_load_color(p + 1, 1)[1]
                         /\ meter_color[2] >= get_load_color(p + 1, 1)[2]

\* C18: a tick of the Monitoring branch records one sample, sends one
\* command, whose colour is get_load_color of the average of the cache as
\* it is after that sample, and leaves NOTIFY alone.
C18_MonitoringTick ==
  /\ [][(pc = "sample" /\ ~ScannerStep)
          => (pc' = "display" /\
              \E load \in 0..100 :
                cpu_load_cache' =
                  record_sample(cpu_load_cache, current_sampling, load))]_vars
  /\ [][recorded' # recorded => (pc = "sample" /\ pc' = "display")]_vars
  /\ [][(pc = "display" /\ CmdIssued)
          => tick_cmds' = << color_string(
                 get_load_color(SumSeq(cpu_load_cache), Len(cpu_load_cache))) >>]_vars
  /\ []((tick_top = "" /\ cpu_load # <<>> /\ (pc = "tick" \/ exit_status # ""))
          => Len(tick_cmds) = 1)
  /\ [][((pc = "sample" \/ pc = "display" \/ (pc = "tick" /\ NOTIFY = ""))
           /\ ~ScannerStep) => NOTIFY' = NOTIFY]_vars

\* C18 witness: a Monitoring tick has ended with its one command, and the
\* name written meanwhile is still in NOTIFY.
C18_Witness ==
  /\ pc = "tick" /\ tick_top = "" /\ tick_cmds = << <<255, 0, 0>> >>
  /\ NOTIFY = "Telegram"

\* C20: the cache always has SAMPLES slots and the cursor is in
\* 0..SAMPLES-1; a sample overwrites the slot at the cursor only and moves
\* the cursor on by one modulo SAMPLES; once SAMPLES samples have been
\* recorded the cache holds the last SAMPLES samples, the oldest at the
\* cursor.
C20_RingBuffer ==
  /\ [](Len(cpu_load_cache) = SAMPLES /\ current_sampling \in 0..(SAMPLES - 1))
  /\ [][(pc = "sample")
          => /\ \A i \in 1..SAMPLES :
                  i # current_sampling + 1 => cpu_load_cache'[i] = cpu_load_cache[i]
             /\ cpu_load_cache'[current_sampling + 1] = recorded'[Len(recorded')]
             /\ current_sampling' = (current_sampling + 1) % SAMPLES]_vars
  /\ [][pc # "sample" => UNCHANGED <<cpu_load_cache, current_sampling>>]_vars
  /\ [](Len(recorded) = SAMPLES
          => \A j \in 1..SAMPLES :
               cpu_load_cache[((current_sampling + j - 1) % SAMPLES) + 1]
                 = recorded[j])

\* C20 witness: the cursor has wrapped and the cache holds the last samples,
\* none of them a pre-fill value.
C20_Witness ==
  /\ Len(recorded) = SAMPLES /\ current_sampling = 1
  /\ recorded[1] = 40 /\ recorded[SAMPLES] = 80
  /\ cpu_load_cache[1] = 80

\* The main loop is in the Monitoring branch or at the top of a tick.
Monitoring == pc \in {"tick", "sample", "display"}

\* C19: when every command succeeds, a tick that found a name with a
\* setting at line 176 ends: the pattern finishes, NOTIFY is cleared by line
\* 202 and by nothing else, and the loop is back at the top of a tick; and
\* if the scanner stops writing, the loop ends up in the Monitoring branch
\* for good and keeps sending load colours.
C19_BlinkTerminates ==
  /\ (pc = "scan" /\ resolve(tick_top, notification_settings_list) # 0)
       ~> (pc = "tick")
  /\ (pc = "blink") ~> (pc = "tick")
  /\ [][(NOTIFY # "" /\ NOTIFY' = "") => (pc = "clear" /\ pc' = "tick")]_vars
  /\ (<>[](~unread)) => (<>[]Monitoring /\ []<>(pc = "display"))
====
